---- MODULE Spec2Model ----
(***************************************************************************)
(* A model of webchecker (cli.py): the run loop run_check, the page        *)
(* checker check_page, the event log Log with its JSON file, the           *)
(* requirement checkers and the status page served from a daemon thread.   *)
(***************************************************************************)
EXTENDS Integers, Sequences, FiniteSets, TLC

(* ------------------------------ bounds --------------------------------- *)

\* largest number of pages in a config file
MaxPages == 2
\* passes of the while loop that the model follows
MaxPasses == 2
\* largest value of the wall clock
MaxClock == 1
\* status requests that the model follows
MaxRequests == 1
\* tokens the buffered file writer holds before it writes them to the file
BufferTokens == 6

\* longest response body over the characters x and y given to a checker
MaxLen == 2
\* most terms given to a checker
MaxTerms == 2

(* --------------------------- program constants ------------------------- *)

\* status_page renders log.get_events(page)[-10:]
RenderLimit == 10

(* ------------------------------ inputs --------------------------------- *)

\* keys of the config file, in file order
PageNames == <<"a", "b", "c", "d">>

\* names in the registry returned by get_requirement_checkers
get_requirement_checkers == {"content_includes", "content_does_not_include"}

\* requirement lists a page of the config may carry; a requirement is a list
\* whose first element is the name and whose other elements are the terms,
\* a term and a response body being sequences of characters
RequirementLists ==
  << <<>>,
     << <<"content_includes", <<"x">> >>,
        <<"content_does_not_include", <<"y">>, <<"x", "y">> >> >>,
     << <<"content_includes", <<"x">>, <<"y">> >>,
        <<"content_include", <<"x">> >>,
        <<"content_does_not_include", <<"y">> >> >>,
     << <<"content_includes", <<"x">> >> >> >>

\* bodies the web server may answer with
Texts == { <<>>, <<"x">>, <<"y", "x", "y">> }

\* values of --delay
Delays == {-1, 0}

PageConfig(k, reqs) ==
  [name |-> PageNames[k], url |-> PageNames[k], requirements |-> reqs]

\* the config files: n pages, the requirement lists taken in turn from the
\* r-th on
Configs ==
  { [k \in 1..n |->
       PageConfig(k, RequirementLists[((r + k) % Len(RequirementLists)) + 1])] :
      n \in 0..MaxPages, r \in 1..Len(RequirementLists) }

(* ------------------------------- events -------------------------------- *)

ResponseFailed(ts) ==
  [type |-> "response_failed", error |-> "error", timestamp |-> ts]

\* ResponseReceived with the duration in the place of the time stamp
ResponseReceived_duration(duration, ts) ==
  [type |-> "response_received", duration |-> duration,
   timestamp |-> duration]

ResponseReceived(duration, ts) ==
  [type |-> "response_received", duration |-> duration, timestamp |-> ts]

RequirementPassed(requirement, ts) ==
  [type |-> "requirement_passed", requirement |-> requirement,
   timestamp |-> ts]

RequirementFailed(requirement, ts) ==
  [type |-> "requirement_failed", requirement |-> requirement,
   timestamp |-> ts]

(* ----------------------------- the Log class --------------------------- *)

\* The dict _log keeps its keys in insertion order: a sequence of entries
\* [page, events].

get_pages(l) == [k \in 1..Len(l) |-> l[k].page]

HasPage(l, page) == \E k \in 1..Len(l) : l[k].page = page

\* _log[page] of the defaultdict: the empty list for an unseen page
get_events(l, page) ==
  IF HasPage(l, page)
    THEN l[CHOOSE k \in 1..Len(l) : l[k].page = page].events
    ELSE <<>>

\* add_event putting the event first in the page's list
add_event_first(l, page, event) ==
  IF HasPage(l, page)
    THEN [k \in 1..Len(l) |->
            IF l[k].page = page
              THEN [page |-> page, events |-> <<event>> \o l[k].events]
              ELSE l[k]]
    ELSE Append(l, [page |-> page, events |-> <<event>>])

\* add_event replacing the page's list by the event
add_event_only(l, page, event) ==
  IF HasPage(l, page)
    THEN [k \in 1..Len(l) |->
            IF l[k].page = page
              THEN [page |-> page, events |-> <<event>>]
              ELSE l[k]]
    ELSE Append(l, [page |-> page, events |-> <<event>>])

\* add_event appending the event to the list of every page
add_event_shared(l, page, event) ==
  IF HasPage(l, page)
    THEN [k \in 1..Len(l) |->
            [page |-> l[k].page, events |-> Append(l[k].events, event)]]
    ELSE Append(l, [page |-> page, events |-> <<event>>])

\* _log[page].append(event), the event already stamped
add_event(l, page, event) ==
  IF HasPage(l, page)
    THEN [k \in 1..Len(l) |->
            IF l[k].page = page
              THEN [page |-> page, events |-> Append(l[k].events, event)]
              ELSE l[k]]
    ELSE Append(l, [page |-> page, events |-> <<event>>])

(* ------------------------- the JSON log document ----------------------- *)

\* json.dump writes the dict as a sequence of tokens: "{", then for each key
\* the key with the opening of its list, its events and "]", then "}".

RECURSIVE DumpEvents(_)
DumpEvents(events) ==
  IF events = <<>> THEN <<>>
  ELSE <<[t |-> "event", event |-> Head(events)]>> \o DumpEvents(Tail(events))

RECURSIVE DumpEntries(_)
DumpEntries(l) ==
  IF l = <<>> THEN <<>>
  ELSE <<[t |-> "key", page |-> Head(l).page]>>
         \o DumpEvents(Head(l).events)
         \o <<[t |-> "]"]>>
         \o DumpEntries(Tail(l))

json_dump(l) == <<[t |-> "{"]>> \o DumpEntries(l) \o <<[t |-> "}"]>>

ParseError == [ok |-> FALSE, log |-> <<>>]

\* the list of one key: events up to the closing "]"
RECURSIVE ParseEvents(_, _, _)
ParseEvents(toks, k, events) ==
  IF k > Len(toks) THEN [ok |-> FALSE, next |-> k, events |-> <<>>]
  ELSE IF toks[k].t = "event"
    THEN ParseEvents(toks, k + 1, Append(events, toks[k].event))
  ELSE IF toks[k].t = "]"
    THEN [ok |-> TRUE, next |-> k + 1, events |-> events]
  ELSE [ok |-> FALSE, next |-> k, events |-> <<>>]

RECURSIVE ParseEntries(_, _, _)
ParseEntries(toks, k, l) ==
  IF k > Len(toks) THEN ParseError
  ELSE IF toks[k].t = "}"
    THEN IF k = Len(toks) THEN [ok |-> TRUE, log |-> l] ELSE ParseError
  ELSE IF toks[k].t = "key"
    THEN LET r == ParseEvents(toks, k + 1, <<>>)
         IN  IF r.ok
               THEN ParseEntries(toks, r.next,
                      Append(l, [page |-> toks[k].page, events |-> r.events]))
               ELSE ParseError
  ELSE ParseError

\* json.load of the file: the dict, or a decoding error
json_load(toks) ==
  IF toks = <<>> \/ toks[1].t # "{" THEN ParseError
  ELSE ParseEntries(toks, 2, <<>>)

(* ------------------------ the requirement checkers --------------------- *)

\* re.search(term, content) for a term without metacharacters
re_search(term, content) ==
  \E s \in 0..(Len(content) - Len(term)) :
    SubSeq(content, s + 1, s + Len(term)) = term

RECURSIVE content_includes_checker(_, _)
content_includes_checker(content, terms) ==
  IF terms = <<>> THEN TRUE
  ELSE IF ~ re_search(Head(terms), content) THEN FALSE
  ELSE content_includes_checker(content, Tail(terms))

RECURSIVE content_does_not_include_checker(_, _)
content_does_not_include_checker(content, terms) ==
  IF terms = <<>> THEN TRUE
  ELSE IF re_search(Head(terms), content) THEN FALSE
  ELSE content_does_not_include_checker(content, Tail(terms))

\* requirement_checkers[requirement_name](text, *requirement_params)
matcher(requirement_name, content, terms) ==
  IF requirement_name = "content_includes"
    THEN content_includes_checker(content, terms)
    ELSE content_does_not_include_checker(content, terms)

(* ----------------------------- the status page ------------------------- *)

RECURSIVE reversed(_)
reversed(s) ==
  IF s = <<>> THEN <<>> ELSE Append(reversed(Tail(s)), Head(s))

\* events[:10]
FirstEvents(events) ==
  SubSeq(events, 1,
         IF Len(events) > RenderLimit THEN RenderLimit ELSE Len(events))

\* events[-10:]
LastEvents(events) ==
  SubSeq(events,
         IF Len(events) > RenderLimit THEN Len(events) - RenderLimit + 1 ELSE 1,
         Len(events))

\* the <li> of one event: its time and the text of its type
RenderEvent(event) ==
  IF event.type = "response_failed"
    THEN [ts |-> event.timestamp, text |-> "Response failed"]
  ELSE IF event.type = "response_received"
    THEN [ts |-> event.timestamp, text |-> "Response received in",
          duration |-> event.duration]
  ELSE IF event.type = "requirement_passed"
    THEN [ts |-> event.timestamp, text |-> "Requirement passed",
          requirement |-> event.requirement]
  ELSE [ts |-> event.timestamp, text |-> "Requirement failed",
        requirement |-> event.requirement]

\* the <p>page</p><ul>...</ul> of every page of the log
RenderLog(l) ==
  [k \in 1..Len(get_pages(l)) |->
     LET page == get_pages(l)[k]
         shown == reversed(LastEvents(get_events(l, page)))
     IN  [page |-> page,
          items |-> [n \in 1..Len(shown) |-> RenderEvent(shown[n])]]]

NoResult == [status |-> "none", text |-> <<>>]

NoResponse == [status |-> 0, body |-> <<>>]

\* the answer to GET /: the page, or the framework's error answer when the
\* log file does not decode
status_page(toks) ==
  LET r == json_load(toks)
  IN  IF r.ok THEN [status |-> 200, body |-> RenderLog(r.log)]
               ELSE [status |-> 500, body |-> <<>>]

(* -------------------------------- state -------------------------------- *)

VARIABLES
  configfile,  \* the config file: whether it exists, and its pages
  logfile,     \* the log file: whether it exists, and the tokens in it
  delay,       \* --delay
  html,        \* --html
  pc,          \* where the main thread is
  pages,       \* the loaded config
  log,         \* _log of the run loop's Log
  i,           \* index in pages of the page of the for loop (0: none yet)
  j,           \* requirements of the page evaluated so far
  result,      \* result of requests.get: raised, or returned with its text
  t_start,     \* t_start of check_page
  now,         \* the wall clock
  web,         \* the body that the web servers answer with during the run
  passes,      \* passes of the while loop started
  calls,       \* the pages check_page was called with, in call order
  before,      \* _log as it was when check_page was called
  atPass,      \* _log as it was when the pass of the while loop started
  buffer,      \* the document that save is writing
  saved,       \* the document written by the last completed save
  thread,      \* whether the status server thread runs
  requests,    \* status requests answered
  response,    \* the answer to the last status request
  call         \* a call of a requirement checker followed on its own

vars == <<configfile, logfile, delay, html, pc, pages, log, i, j, result,
          t_start, now, web, passes, calls, before, atPass, buffer, saved,
          thread, requests, response, call>>

\* log files an earlier run may have left, written at time 0
EarlierEvents ==
  [k \in 1..RenderLimit |->
     IF k % 2 = 1 THEN ResponseReceived(0, 0)
                  ELSE RequirementPassed(<<"content_includes", <<"x">> >>, 0)]

LogFiles ==
  { [exists |-> FALSE, content |-> <<>>],
    [exists |-> TRUE, content |-> json_dump(<<>>)],
    [exists |-> TRUE,
     content |-> json_dump(<<[page |-> "z", events |-> <<ResponseFailed(0)>>],
                             [page |-> "a", events |-> EarlierEvents]>>)] }

ConfigFiles ==
  {[exists |-> FALSE, content |-> <<>>]}
    \cup {[exists |-> TRUE, content |-> c] : c \in Configs}

\* no checker is called on its own
NoCall ==
  [checker |-> "none", content |-> <<>>, terms |-> <<>>, searched |-> 0,
   printed |-> FALSE, returned |-> FALSE, value |-> FALSE]

\* the state in which run_check is called: the files as found, the options
\* one of the given ones, the web answering with one of the bodies, the clock
\* at t
Start(configfiles, logfiles, options, bodies, t) ==
  /\ configfile \in configfiles
  /\ logfile \in logfiles
  /\ delay \in Delays
  /\ html \in options
  /\ web \in bodies
  /\ pc = "load_config"
  /\ pages = <<>>
  /\ log = <<>>
  /\ i = 0
  /\ j = 0
  /\ result = NoResult
  /\ t_start = 0
  /\ now = t
  /\ passes = 0
  /\ calls = <<>>
  /\ before = <<>>
  /\ atPass = <<>>
  /\ buffer = <<>>
  /\ saved = logfile.content
  /\ thread = FALSE
  /\ requests = 0
  /\ response = NoResponse
  /\ call = NoCall

\* run_check without --html, started when the clock has reached MaxClock
Init == Start(ConfigFiles, LogFiles, {FALSE}, Texts, MaxClock)

\* a reading of time.time(): the clock never goes backwards
Times(t) == {u \in t..(t + 1) : u <= MaxClock}

Running == pc \notin {"done", "crashed"}

(* ------------------------------ run_check ------------------------------ *)

\* load_config returning an empty config when the file is missing
load_config_continue ==
  /\ pc = "load_config"
  /\ pages' = IF configfile.exists THEN configfile.content ELSE <<>>
  /\ pc' = "Log"
  /\ UNCHANGED <<call, web, configfile, logfile, delay, html, log, i, j,
                 result, t_start, now, passes, calls, before, atPass, buffer,
                 saved, thread, requests, response>>

\* pages = load_config(configfile); sys.abort does not exist, so a missing
\* file ends the process with an AttributeError
load_config ==
  /\ pc = "load_config"
  /\ IF configfile.exists
       THEN /\ pages' = configfile.content
            /\ pc' = "Log"
       ELSE /\ pages' = pages
            /\ pc' = "crashed"
  /\ UNCHANGED <<call, web, configfile, logfile, delay, html, log, i, j,
                 result, t_start, now, passes, calls, before, atPass, buffer,
                 saved, thread, requests, response>>

\* LogInit leaving a missing file missing
LogInit_no_save ==
  /\ pc = "Log"
  /\ IF ~ logfile.exists
       THEN /\ log' = <<>>
            /\ pc' = "thread"
       ELSE LET r == json_load(logfile.content)
            IN  IF r.ok THEN /\ log' = r.log
                             /\ pc' = "thread"
                        ELSE /\ log' = log
                             /\ pc' = "crashed"
  /\ UNCHANGED <<call, web, configfile, logfile, delay, html, pages, i, j,
                 result, t_start, now, passes, calls, before, atPass, buffer,
                 saved, thread, requests, response>>

\* LogInit starting from the empty log whatever the file holds
LogInit_fresh ==
  /\ pc = "Log"
  /\ log' = <<>>
  /\ pc' = IF logfile.exists THEN "thread" ELSE "save"
  /\ UNCHANGED <<call, web, configfile, logfile, delay, html, pages, i, j,
                 result, t_start, now, passes, calls, before, atPass, buffer,
                 saved, thread, requests, response>>

\* log = Log(logfile, verbose): load the file, or save the empty log
LogInit ==
  /\ pc = "Log"
  /\ IF ~ logfile.exists
       THEN /\ log' = <<>>
            /\ pc' = "save"
       ELSE LET r == json_load(logfile.content)
            IN  IF r.ok THEN /\ log' = r.log
                             /\ pc' = "thread"
                        ELSE /\ log' = log
                             /\ pc' = "crashed"
  /\ UNCHANGED <<call, web, configfile, logfile, delay, html, pages, i, j,
                 result, t_start, now, passes, calls, before, atPass, buffer,
                 saved, thread, requests, response>>

\* if html: thread.start(); then the first pass of the while loop begins
thread_start ==
  /\ pc = "thread"
  /\ thread' = html
  /\ passes' = 1
  /\ atPass' = log
  /\ i' = 0
  /\ pc' = "for"
  /\ UNCHANGED <<call, web, configfile, logfile, delay, html, pages, log, j,
                 result, t_start, now, calls, before, buffer, saved, requests,
                 response>>

\* the for loop takes the next page and calls check_page, which reads t_start
check_page_call ==
  /\ pc = "for"
  /\ i < Len(pages)
  /\ i' = i + 1
  /\ calls' = Append(calls, pages[i + 1].name)
  /\ before' = log
  /\ \E t \in Times(now) : now' = t /\ t_start' = t
  /\ j' = 0
  /\ pc' = "get"
  /\ UNCHANGED <<call, web, configfile, logfile, delay, html, pages, log,
                 result, passes, atPass, buffer, saved, thread, requests,
                 response>>

\* get_raises without the except clause: the exception ends the process
get_raises_uncaught ==
  /\ pc = "get"
  /\ result' = [status |-> "raised", text |-> <<>>]
  /\ pc' = "crashed"
  /\ UNCHANGED <<call, web, configfile, logfile, delay, html, pages, log, i, j,
                 t_start, now, passes, calls, before, atPass, buffer, saved,
                 thread, requests, response>>

\* get_raises without the return: the requirements are evaluated all the same
get_raises_no_return ==
  /\ pc = "get"
  /\ \E t \in Times(now) :
       /\ now' = t
       /\ log' = add_event(log, pages[i].name, ResponseFailed(t))
  /\ result' = [status |-> "raised", text |-> <<>>]
  /\ pc' = IF pages[i].requirements = <<>> THEN "save" ELSE "requirements"
  /\ UNCHANGED <<call, web, configfile, logfile, delay, html, pages, i, j,
                 t_start, passes, calls, before, atPass, buffer, saved, thread,
                 requests, response>>

\* requests.get raises: one response_failed event, and check_page returns
get_raises ==
  /\ pc = "get"
  /\ \E t \in Times(now) :
       /\ now' = t
       /\ log' = add_event(log, pages[i].name, ResponseFailed(t))
  /\ result' = [status |-> "raised", text |-> <<>>]
  /\ pc' = "save"
  /\ UNCHANGED <<call, web, configfile, logfile, delay, html, pages, i, j,
                 t_start, passes, calls, before, atPass, buffer, saved,
                 thread, requests, response>>

\* requests.get returns: the duration is read, then the event is stamped
get_returns ==
  /\ pc = "get"
  /\ result' = [status |-> "returned", text |-> web]
  /\ \E t \in Times(now) :
       \E u \in Times(t) :
         /\ now' = u
         /\ log' = add_event(log, pages[i].name,
                             ResponseReceived(t - t_start, u))
  /\ pc' = IF pages[i].requirements = <<>> THEN "save" ELSE "requirements"
  /\ UNCHANGED <<call, web, configfile, logfile, delay, html, pages, i, j,
                 t_start, passes, calls, before, atPass, buffer, saved, thread,
                 requests, response>>

\* requirement_step writing the log to the file when the lookup raises
requirement_step_saving ==
  /\ pc = "requirements"
  /\ LET requirement == pages[i].requirements[j + 1]
         requirement_name == Head(requirement)
         requirement_params == Tail(requirement)
     IN  IF requirement_name \notin get_requirement_checkers
           THEN /\ pc' = "crashed"
                /\ logfile' = [exists |-> TRUE, content |-> json_dump(log)]
                /\ UNCHANGED <<log, j, now>>
           ELSE /\ \E t \in Times(now) :
                     /\ now' = t
                     /\ log' = add_event(log, pages[i].name,
                          IF matcher(requirement_name, result.text,
                                     requirement_params)
                            THEN RequirementPassed(requirement, t)
                            ELSE RequirementFailed(requirement, t))
                /\ j' = j + 1
                /\ pc' = IF j + 1 = Len(pages[i].requirements)
                           THEN "save" ELSE "requirements"
                /\ logfile' = logfile
  /\ UNCHANGED <<call, web, configfile, delay, html, pages, i, result,
                 t_start, passes, calls, before, atPass, buffer, saved,
                 thread, requests, response>>

\* requirement_step skipping a requirement whose name is not in the registry
requirement_step_skip ==
  /\ pc = "requirements"
  /\ LET requirement == pages[i].requirements[j + 1]
         requirement_name == Head(requirement)
         requirement_params == Tail(requirement)
     IN  /\ \E t \in Times(now) :
              /\ now' = t
              /\ log' = IF requirement_name \notin get_requirement_checkers
                          THEN log
                        ELSE add_event(log, pages[i].name,
                          IF matcher(requirement_name, result.text,
                                     requirement_params)
                            THEN RequirementPassed(requirement, t)
                            ELSE RequirementFailed(requirement, t))
         /\ j' = j + 1
         /\ pc' = IF j + 1 = Len(pages[i].requirements)
                    THEN "save" ELSE "requirements"
  /\ UNCHANGED <<call, web, configfile, logfile, delay, html, pages, i, result,
                 t_start, passes, calls, before, atPass, buffer, saved,
                 thread, requests, response>>

\* one turn of the loop over config['requirements']; a name that is not in
\* the registry raises KeyError, which nothing catches
requirement_step ==
  /\ pc = "requirements"
  /\ LET requirement == pages[i].requirements[j + 1]
         requirement_name == Head(requirement)
         requirement_params == Tail(requirement)
     IN  IF requirement_name \notin get_requirement_checkers
           THEN /\ pc' = "crashed"
                /\ UNCHANGED <<log, j, now>>
           ELSE /\ \E t \in Times(now) :
                     /\ now' = t
                     /\ log' = add_event(log, pages[i].name,
                          IF matcher(requirement_name, result.text,
                                     requirement_params)
                            THEN RequirementPassed(requirement, t)
                            ELSE RequirementFailed(requirement, t))
                /\ j' = j + 1
                /\ pc' = IF j + 1 = Len(pages[i].requirements)
                           THEN "save" ELSE "requirements"
  /\ UNCHANGED <<call, web, configfile, logfile, delay, html, pages, i, result,
                 t_start, passes, calls, before, atPass, buffer, saved, thread,
                 requests, response>>

(* ------------------------------- Log.save ------------------------------ *)

\* save_open writing the file only after the last page of the pass
save_open_last ==
  /\ pc = "save"
  /\ IF passes >= 1 /\ i < Len(pages)
       THEN /\ pc' = "for"
            /\ UNCHANGED <<logfile, buffer>>
       ELSE /\ logfile' = [exists |-> TRUE, content |-> <<>>]
            /\ buffer' = json_dump(log)
            /\ pc' = "dump"
  /\ UNCHANGED <<call, web, configfile, delay, html, pages, log, i, j, result,
                 t_start, now, passes, calls, before, atPass, saved, thread,
                 requests, response>>

\* open(logfile, 'w') creates or truncates the file
save_open ==
  /\ pc = "save"
  /\ logfile' = [exists |-> TRUE, content |-> <<>>]
  /\ buffer' = json_dump(log)
  /\ pc' = "dump"
  /\ UNCHANGED <<call, web, configfile, delay, html, pages, log, i, j, result,
                 t_start, now, passes, calls, before, atPass, saved, thread,
                 requests, response>>

\* json.dump fills the writer's buffer, which goes to the file when full
save_write ==
  /\ pc = "dump"
  /\ Len(buffer) - Len(logfile.content) > BufferTokens
  /\ logfile' = [exists |-> TRUE,
                 content |-> SubSeq(buffer, 1,
                                    Len(logfile.content) + BufferTokens)]
  /\ UNCHANGED <<call, web, configfile, delay, html, pc, pages, log, i, j,
                 result, t_start, now, passes, calls, before, atPass, buffer,
                 saved, thread, requests, response>>

\* save_close closing the file without writing what the buffer still holds
save_close_unflushed ==
  /\ pc = "dump"
  /\ Len(buffer) - Len(logfile.content) <= BufferTokens
  /\ saved' = logfile.content
  /\ pc' = IF passes = 0 THEN "thread" ELSE "for"
  /\ UNCHANGED <<call, web, configfile, logfile, delay, html, pages, log, i, j,
                 result, t_start, now, passes, calls, before, atPass, buffer,
                 thread, requests, response>>

\* leaving the with block writes the rest and closes the file; save returns
\* to Log.__init__ (no page taken yet) or to the for loop
save_close ==
  /\ pc = "dump"
  /\ Len(buffer) - Len(logfile.content) <= BufferTokens
  /\ logfile' = [exists |-> TRUE, content |-> buffer]
  /\ saved' = buffer
  /\ pc' = IF passes = 0 THEN "thread" ELSE "for"
  /\ UNCHANGED <<call, web, configfile, delay, html, pages, log, i, j, result,
                 t_start, now, passes, calls, before, atPass, buffer, thread,
                 requests, response>>

(* --------------------------- the end of a pass ------------------------- *)

\* pass_end without the break
pass_end_no_break ==
  /\ pc = "for"
  /\ i = Len(pages)
  /\ pc' = "sleep"
  /\ UNCHANGED <<call, web, configfile, logfile, delay, html, pages, log, i, j,
                 result, t_start, now, passes, calls, before, atPass, buffer,
                 saved, thread, requests, response>>

\* pass_end breaking also when the delay is 0
pass_end_break_at_zero ==
  /\ pc = "for"
  /\ i = Len(pages)
  /\ pc' = IF delay <= 0 THEN "done" ELSE "sleep"
  /\ UNCHANGED <<call, web, configfile, logfile, delay, html, pages, log, i, j,
                 result, t_start, now, passes, calls, before, atPass, buffer,
                 saved, thread, requests, response>>

\* the for loop is exhausted: break if delay < 0, else time.sleep(delay)
pass_end ==
  /\ pc = "for"
  /\ i = Len(pages)
  /\ pc' = IF delay < 0 THEN "done" ELSE "sleep"
  /\ UNCHANGED <<call, web, configfile, logfile, delay, html, pages, log, i, j,
                 result, t_start, now, passes, calls, before, atPass, buffer,
                 saved, thread, requests, response>>

\* time.sleep returns and the while loop starts the next pass
sleep_returns ==
  /\ pc = "sleep"
  /\ passes < MaxPasses
  /\ passes' = passes + 1
  /\ atPass' = log
  /\ i' = 0
  /\ pc' = "for"
  /\ \E t \in Times(now) : now' = t
  /\ UNCHANGED <<call, web, configfile, logfile, delay, html, pages, log, j,
                 result, t_start, calls, before, buffer, saved, thread,
                 requests, response>>

(* ----------------------------- status server --------------------------- *)

\* status_request rendering the run loop's _log and not the file
status_request_shared ==
  /\ thread
  /\ Running
  /\ requests < MaxRequests
  /\ requests' = requests + 1
  /\ response' = [status |-> 200, body |-> RenderLog(log)]
  /\ UNCHANGED <<call, web, configfile, logfile, delay, html, pc, pages, log,
                 i, j, result, t_start, now, passes, calls, before, atPass,
                 buffer, saved, thread>>

\* GET / on the daemon thread, which lives as long as the process: it opens
\* its own Log on the file (saving an empty one if the file is missing)
status_request ==
  /\ thread
  /\ Running
  /\ requests < MaxRequests
  /\ requests' = requests + 1
  /\ IF ~ logfile.exists
       THEN /\ logfile' = [exists |-> TRUE, content |-> json_dump(<<>>)]
            /\ response' = status_page(json_dump(<<>>))
       ELSE /\ logfile' = logfile
            /\ response' = status_page(logfile.content)
  /\ UNCHANGED <<call, web, configfile, delay, html, pc, pages, log, i, j,
                 result, t_start, now, passes, calls, before, atPass, buffer,
                 saved, thread>>

\* the main thread
run_check ==
  \/ load_config
  \/ LogInit
  \/ thread_start
  \/ check_page_call
  \/ get_raises
  \/ get_returns
  \/ requirement_step
  \/ save_open
  \/ save_write
  \/ save_close
  \/ pass_end
  \/ sleep_returns

Spec == Init /\ [][run_check]_vars

\* the main thread runs as long as it can, and time.sleep returns
FairSpec == Spec /\ WF_vars(run_check)

\* run_check --html: the main thread and the requests to the status server
ServerInit ==
  Start(ConfigFiles, LogFiles, {TRUE}, {<<"y", "x", "y">>}, MaxClock)

Next ==
  \/ load_config
  \/ LogInit
  \/ thread_start
  \/ check_page_call
  \/ get_raises
  \/ get_returns
  \/ requirement_step
  \/ save_open
  \/ save_write
  \/ save_close
  \/ pass_end
  \/ sleep_returns
  \/ status_request

ServerSpec == ServerInit /\ [][Next]_vars

\* run_check without --html over a config of at most two pages, started at
\* time 0, so that the clock is seen to advance
ClockInit ==
  Start({f \in ConfigFiles : f.exists /\ Len(f.content) <= 2}, LogFiles,
        {FALSE}, {<<"y", "x", "y">>}, 0)

ClockSpec == ClockInit /\ [][run_check]_vars

(* --------------------- a requirement checker on its own ---------------- *)

HelloWorld == <<"h", "e", "l", "l", "o", " ", "w", "o", "r", "l", "d">>
Hello == <<"h", "e", "l", "l", "o">>
Xyz == <<"x", "y", "z">>

\* the sequences of at most n elements of S
SeqUpTo(S, n) == UNION {[1..m -> S] : m \in 0..n}

\* the response bodies and the terms a checker is called with
Contents == SeqUpTo({"x", "y"}, MaxLen) \cup {HelloWorld}
Terms == {<<>>, <<"x">>, <<"y">>, <<"x", "y">>, Hello, Xyz}

runVars == <<configfile, logfile, delay, html, pc, pages, log, i, j, result,
             t_start, now, web, passes, calls, before, atPass, buffer, saved,
             thread, requests, response>>

\* matcher(text, *requirement_params) is called; no run of run_check
CheckerInit ==
  /\ call \in [checker : get_requirement_checkers, content : Contents,
               terms : SeqUpTo(Terms, MaxTerms), searched : {0},
               printed : {FALSE}, returned : {FALSE}, value : {FALSE}]
  /\ configfile = [exists |-> FALSE, content |-> <<>>]
  /\ logfile = [exists |-> FALSE, content |-> <<>>]
  /\ delay = -1
  /\ html = FALSE
  /\ web = <<>>
  /\ pc = "load_config"
  /\ pages = <<>>
  /\ log = <<>>
  /\ i = 0
  /\ j = 0
  /\ result = NoResult
  /\ t_start = 0
  /\ now = 0
  /\ passes = 0
  /\ calls = <<>>
  /\ before = <<>>
  /\ atPass = <<>>
  /\ buffer = <<>>
  /\ saved = <<>>
  /\ thread = FALSE
  /\ requests = 0
  /\ response = NoResponse

\* content_includes_step without the return False
content_includes_step_no_return ==
  /\ call.checker = "content_includes"
  /\ ~ call.returned
  /\ call.searched < Len(call.terms)
  /\ call' = IF ~ re_search(call.terms[call.searched + 1], call.content)
               THEN [call EXCEPT !.searched = @ + 1, !.printed = TRUE]
               ELSE [call EXCEPT !.searched = @ + 1]
  /\ UNCHANGED runVars

\* one turn of the loop of content_includes_checker: the term is searched
\* for; if it is not found the content is printed and False returned
content_includes_step ==
  /\ call.checker = "content_includes"
  /\ ~ call.returned
  /\ call.searched < Len(call.terms)
  /\ call' = IF ~ re_search(call.terms[call.searched + 1], call.content)
               THEN [call EXCEPT !.searched = @ + 1, !.printed = TRUE,
                                 !.returned = TRUE, !.value = FALSE]
               ELSE [call EXCEPT !.searched = @ + 1]
  /\ UNCHANGED runVars

\* the loop of content_includes_checker is exhausted: return True
content_includes_return ==
  /\ call.checker = "content_includes"
  /\ ~ call.returned
  /\ call.searched = Len(call.terms)
  /\ call' = [call EXCEPT !.returned = TRUE, !.value = TRUE]
  /\ UNCHANGED runVars

\* content_does_not_include_step with the test of content_includes
content_does_not_include_step_negated ==
  /\ call.checker = "content_does_not_include"
  /\ ~ call.returned
  /\ call.searched < Len(call.terms)
  /\ call' = IF ~ re_search(call.terms[call.searched + 1], call.content)
               THEN [call EXCEPT !.searched = @ + 1,
                                 !.returned = TRUE, !.value = FALSE]
               ELSE [call EXCEPT !.searched = @ + 1]
  /\ UNCHANGED runVars

\* one turn of the loop of content_does_not_include_checker: the term is
\* searched for; if it is found False is returned
content_does_not_include_step ==
  /\ call.checker = "content_does_not_include"
  /\ ~ call.returned
  /\ call.searched < Len(call.terms)
  /\ call' = IF re_search(call.terms[call.searched + 1], call.content)
               THEN [call EXCEPT !.searched = @ + 1,
                                 !.returned = TRUE, !.value = FALSE]
               ELSE [call EXCEPT !.searched = @ + 1]
  /\ UNCHANGED runVars

\* the loop of content_does_not_include_checker is exhausted: return True
content_does_not_include_return ==
  /\ call.checker = "content_does_not_include"
  /\ ~ call.returned
  /\ call.searched = Len(call.terms)
  /\ call' = [call EXCEPT !.returned = TRUE, !.value = TRUE]
  /\ UNCHANGED runVars

CheckerNext ==
  \/ content_includes_step
  \/ content_includes_return
  \/ content_does_not_include_step
  \/ content_does_not_include_return

CheckerSpec == CheckerInit /\ [][CheckerNext]_vars

(* ------------------------------ properties ----------------------------- *)

\* check_page has returned to the for loop, which has not yet called save
Returned == pc = "save" /\ i >= 1

\* the events that the call of check_page has added to its page
Appended ==
  LET events == get_events(log, pages[i].name)
  IN  SubSeq(events, Len(get_events(before, pages[i].name)) + 1, Len(events))

\* the call of check_page has changed nothing else in the log
RestKept ==
  /\ \A k \in 1..Len(before) :
       before[k].page # pages[i].name => log[k] = before[k]
  /\ \A k \in 1..Len(log) :
       log[k].page # pages[i].name => k <= Len(before)
  /\ LET old == get_events(before, pages[i].name)
     IN  SubSeq(get_events(log, pages[i].name), 1, Len(old)) = old

\* what the registered checker returns for the k-th requirement of the page
IsValid(k) ==
  matcher(Head(pages[i].requirements[k]), result.text,
          Tail(pages[i].requirements[k]))

\* C1: when the GET succeeds, check_page adds to the page's sequence one
\* response_received event and then, for each requirement in config order, one
\* requirement_passed event if the checker returned true and one
\* requirement_failed event otherwise, each with the whole requirement, and
\* nothing else.
C1_SuccessEvents ==
  (Returned /\ result.status = "returned") =>
    LET requirements == pages[i].requirements
    IN  /\ Len(Appended) = 1 + Len(requirements)
        /\ Appended[1].type = "response_received"
        /\ \A k \in 1..Len(requirements) :
             /\ Appended[k + 1].type =
                  IF IsValid(k) THEN "requirement_passed"
                                ELSE "requirement_failed"
             /\ Appended[k + 1].requirement = requirements[k]
        /\ RestKept

\* a successful check of a page that had events, with a requirement that
\* passed and one that failed
C1_Witness ==
  /\ Returned
  /\ result.status = "returned"
  /\ get_events(before, pages[i].name) # <<>>
  /\ \E k, m \in 1..Len(pages[i].requirements) : IsValid(k) /\ ~ IsValid(m)

\* C2: when the GET raises, check_page adds exactly one event, a
\* response_failed event with the error description, and evaluates no
\* requirement, however many the page has.
C2_FailureEvent ==
  (Returned /\ result.status = "raised") =>
    /\ Len(Appended) = 1
    /\ Appended[1].type = "response_failed"
    /\ Appended[1].error = "error"
    /\ j = 0
    /\ RestKept

\* a failed GET for a page with several requirements
C2_Witness ==
  /\ Returned
  /\ result.status = "raised"
  /\ Len(pages[i].requirements) >= 2

\* every requirement of the checked page passed
AllPassed == \A k \in 1..Len(pages[i].requirements) : IsValid(k)

Registered ==
  \A k \in 1..Len(configfile.content) :
    \A m \in 1..Len(configfile.content[k].requirements) :
      Head(configfile.content[k].requirements[m]) \in get_requirement_checkers

\* the page names of the config file, in its order
PageOrder == [k \in 1..Len(configfile.content) |-> configfile.content[k].name]

RECURSIVE Repeat(_, _)
Repeat(s, n) == IF n = 0 THEN <<>> ELSE Repeat(s, n - 1) \o s

IsPrefix(s, t) == Len(s) <= Len(t) /\ SubSeq(t, 1, Len(s)) = s

SingleRun == configfile.exists /\ delay < 0 /\ Registered

\* C3: with a negative delay and every requirement name registered, run_check
\* makes one pass: it calls check_page once for each page, in config order,
\* whatever the requirements and the outcomes of the requests, and then the
\* loop ends, also when the config has no page.
C3_SinglePass ==
  /\ [](SingleRun => /\ passes <= 1
                     /\ IsPrefix(calls, PageOrder)
                     /\ pc # "crashed"
                     /\ pc = "done" => calls = PageOrder)
  /\ (SingleRun ~> pc = "done")

\* a single run over two pages with different numbers of requirements has
\* ended, a request having failed
C3_Witness ==
  /\ SingleRun
  /\ pc = "done"
  /\ Len(pages) >= 2
  /\ Len(pages[1].requirements) # Len(pages[2].requirements)
  /\ result.status = "raised"

RepeatingRun == configfile.exists /\ delay >= 0 /\ Registered

\* C4: with delay >= 0, every requirement name registered (and every save
\* succeeding), the loop has no terminal state: a pass starts only when the
\* pass before has checked and saved every page, each pass checks every page,
\* and each pass is followed by another one as far as the model follows them.
C4_RepeatingRun ==
  /\ [](RepeatingRun => pc \notin {"done", "crashed"})
  /\ [][(RepeatingRun /\ passes >= 1 /\ passes' # passes) =>
          /\ pc = "sleep"
          /\ passes' = passes + 1
          /\ calls = Repeat(PageOrder, passes)
          /\ saved = json_dump(log)
          /\ logfile.content = saved]_vars
  /\ \A n \in 1..MaxPasses :
       (RepeatingRun /\ passes = n) ~>
         (pc = "sleep" /\ passes = n /\ calls = Repeat(PageOrder, n))
  /\ \A n \in 1..(MaxPasses - 1) :
       (RepeatingRun /\ passes = n) ~> (passes = n + 1)

\* with delay 0, the second pass is checking its second page
C4_Witness ==
  /\ RepeatingRun
  /\ delay = 0
  /\ passes = 2
  /\ i = 2
  /\ pc = "get"

\* the log that the file holds, when the file decodes
FileLog == json_load(logfile.content)

FileEvents(page) == get_events(FileLog.log, page)

\* check_page has returned for the k-th page in this pass, and so has the
\* save that follows it
CheckedAndSaved(k) ==
  /\ passes >= 1
  /\ \/ k < i
     \/ k = i /\ pc \in {"for", "sleep", "done"}

\* C5 as stated: at any point of a pass the file holds all events of every
\* page checked (and saved) so far.
C5_Original ==
  \A k \in 1..Len(pages) :
    CheckedAndSaved(k) =>
      /\ FileLog.ok
      /\ FileEvents(pages[k].name) = get_events(log, pages[k].name)

\* C5 amended: at any point of a pass at which no save is writing the file,
\* the file holds the log as the last completed save wrote it: all events of
\* every page for which check_page and the save after it have returned, in
\* this pass and the passes before, and for a page not yet reached no event of
\* this pass; while a save is writing, the file holds only a part of the
\* document, nothing right after it was opened.
C5_SavedAfterEachPage ==
  passes >= 1 =>
    IF pc = "dump"
      THEN /\ IsPrefix(logfile.content, buffer)
           /\ logfile.content # buffer
           /\ ~ FileLog.ok
      ELSE /\ logfile.content = saved
           /\ FileLog.ok
           /\ FileLog.log = IF pc \in {"get", "requirements", "save", "crashed"}
                              THEN before ELSE log
           /\ \A k \in 1..Len(pages) :
                /\ CheckedAndSaved(k) =>
                     FileEvents(pages[k].name) = get_events(log, pages[k].name)
                /\ k > i =>
                     FileEvents(pages[k].name) = get_events(atPass, pages[k].name)

\* in the second pass the first page is checked and saved, and the check of
\* the second page is under way
C5_Witness ==
  /\ passes = 2
  /\ i = 2
  /\ pc = "requirements"
  /\ FileEvents(pages[1].name) = get_events(log, pages[1].name)
  /\ FileEvents(pages[1].name) # get_events(atPass, pages[1].name)

\* C6: a requirement name that is not in the registry ends the run: the
\* lookup raises, no later page of the pass is checked and no further pass
\* starts.
C6_UnknownRequirement ==
  /\ [][/\ pc # "crashed"
        /\ (/\ pc = "requirements"
            /\ Head(pages[i].requirements[j + 1])
                 \notin get_requirement_checkers) => pc' = "crashed"]_vars
  /\ []((pc = "crashed" /\ passes >= 1) =>
          /\ Head(pages[i].requirements[j + 1]) \notin get_requirement_checkers
          /\ calls = Repeat(PageOrder, passes - 1)
                       \o SubSeq(PageOrder, 1, i))

\* a repeating run has died on the first of two pages, in its first pass
C6_Witness ==
  /\ pc = "crashed"
  /\ delay >= 0
  /\ passes = 1
  /\ i = 1
  /\ Len(pages) = 2
  /\ calls = <<pages[1].name>>

\* the request for the checked page raised and check_page has returned
Raised == Returned /\ result.status = "raised"

\* C7: a transport failure aborts neither the pass nor the process: the log
\* with the response_failed event is saved, then the next page of the config
\* is checked, and after the last page the pass ends as usual, the next pass
\* starting in repeating mode.
C7_TransportFailure ==
  /\ []((pc = "crashed" /\ passes >= 1) => result.status = "returned")
  /\ \A k \in 1..MaxPages, n \in 1..MaxPasses :
       (Raised /\ i = k /\ passes = n) ~>
         /\ k <= Len(pages)
         /\ passes = n
         /\ FileLog.ok
         /\ Len(FileEvents(pages[k].name)) > 0
         /\ FileEvents(pages[k].name)[Len(FileEvents(pages[k].name))].type
              = "response_failed"
         /\ \/ k < Len(pages) /\ i = k + 1 /\ pc = "get"
            \/ k = Len(pages) /\ delay < 0 /\ pc = "done"
            \/ k = Len(pages) /\ delay >= 0 /\ pc = "sleep"
  /\ \A n \in 1..(MaxPasses - 1) :
       (pc = "sleep" /\ result.status = "raised" /\ passes = n) ~>
         (passes = n + 1)

\* the request for the first page failed and the second page is being
\* checked in the same pass
C7_Witness ==
  /\ i = 2
  /\ pc = "get"
  /\ passes = 1
  /\ LET events == get_events(log, pages[1].name)
     IN  events # <<>> /\ events[Len(events)].type = "response_failed"

\* the smaller of two numbers
Min(a, b) == IF a < b THEN a ELSE b

\* C8: for every page of the log file the status page shows min(10, n) of
\* its n events: the most recent ones, the most recent first.
C8_LastTenNewestFirst ==
  [][(requests' # requests /\ response'.status = 200) =>
       /\ Len(response'.body) = Len(FileLog.log)
       /\ \A k \in 1..Len(FileLog.log) :
            LET events == FileLog.log[k].events
                items == response'.body[k].items
            IN  /\ response'.body[k].page = FileLog.log[k].page
                /\ Len(items) = Min(10, Len(events))
                /\ \A m \in 1..Len(items) :
                     items[m] = RenderEvent(events[Len(events) - m + 1])]_vars

\* the page shown for a log with more than ten events of a page: ten items,
\* the oldest of them not the first event of the log
C8_Witness ==
  /\ response.status = 200
  /\ \E k \in 1..Len(response.body) :
       /\ response.body[k].page = "a"
       /\ Len(response.body[k].items) = 10
       /\ response.body[k].items[10] # RenderEvent(EarlierEvents[1])
       /\ response.body[k].items[1].text = "Requirement failed"

\* C9 as stated: whatever the interleaving, a status request renders the
\* content written by the most recent completed save, never a partly written
\* or empty file.
C9_Original ==
  [][requests' # requests => response' = status_page(saved)]_vars

\* C9 amended: a status request opens the log file anew; when no save is
\* writing the file it renders the content written by the most recent
\* completed save (or found at the start), which may lack events added in
\* memory since; when a save is writing the file it reads the emptied or
\* partly written file, which does not decode, and renders nothing.
C9_RendersFile ==
  [][requests' # requests =>
       IF pc = "dump"
         THEN /\ IsPrefix(logfile.content, buffer)
              /\ logfile.content # buffer
              /\ response'.status = 500
         ELSE /\ logfile.content = saved
              /\ response' = status_page(saved)
              /\ response'.status = 200]_vars

\* a request answered while a save was writing the file
C9_Witness ==
  /\ requests >= 1
  /\ pc = "dump"
  /\ response.status = 500

\* the time stamps of a sequence of events never decrease
Ordered(events) ==
  \A m \in 1..(Len(events) - 1) :
    events[m].timestamp <= events[m + 1].timestamp

\* C11: with a clock that never goes backwards, the time stamps of each
\* page's events never decrease from the first event to the last, in memory
\* and in the file, over the passes and the events loaded from the file of an
\* earlier run.
C11_TimestampsOrdered ==
  /\ \A k \in 1..Len(log) : Ordered(log[k].events)
  /\ FileLog.ok => \A k \in 1..Len(FileLog.log) : Ordered(FileLog.log[k].events)

\* in the second pass page "a" holds the events of an earlier run, events of
\* the first pass and events of the second, with time stamps that rise and
\* time stamps that stay
C11_Witness ==
  /\ passes = 2
  /\ LET events == get_events(log, "a")
         n == Len(get_events(atPass, "a"))
     IN  /\ n > RenderLimit
         /\ Len(events) > n + 1
         /\ events[RenderLimit].timestamp < events[n].timestamp
         /\ events[n].timestamp = events[n + 1].timestamp

\* C12: opening a Log on a path that does not exist creates the file with
\* the empty log; opening a Log on a file written by save gives the saved
\* mapping, the same pages with the same events in the same order; and the
\* first add_event on the fresh log leaves one page with one event, which has
\* the fields passed in and a time stamp not before the time read just before.
C12_OpenAndSave ==
  /\ (passes = 0 /\ pc \in {"save", "dump"}) => log = <<>>
  /\ pc = "thread" =>
       /\ logfile.exists
       /\ json_load(logfile.content) = [ok |-> TRUE, log |-> log]
  /\ json_load(json_dump(log)) = [ok |-> TRUE, log |-> log]
  /\ (passes = 1 /\ i = 1 /\ before = <<>> /\ j = 0
        /\ pc \in {"requirements", "save"}) =>
       /\ Len(log) = 1
       /\ log[1].page = pages[1].name
       /\ Len(log[1].events) = 1
       /\ log[1].events[1].timestamp >= t_start
       /\ log[1].events[1] =
            IF result.status = "raised"
              THEN ResponseFailed(log[1].events[1].timestamp)
              ELSE ResponseReceived(log[1].events[1].duration,
                                    log[1].events[1].timestamp)

\* the log file did not exist, the Log created it with the empty log, and the
\* first event was added after the clock had advanced
C12_Witness ==
  /\ passes = 1
  /\ before = <<>>
  /\ saved = json_dump(<<>>)
  /\ buffer = json_dump(<<>>)
  /\ Len(log) = 1
  /\ Len(log[1].events) = 1
  /\ log[1].events[1].timestamp > t_start

\* the k-th term of the call is found in the content
Found(k) == re_search(call.terms[k], call.content)

\* C13: content_includes returns true exactly if every term is found in the
\* text (so for no term at all); it stops at the first term that is not
\* found, having printed the text, and returns false; it is true of
\* ("hello world", "hello") and false of ("hello world", "xyz").
C13_ContentIncludes ==
  (call.checker = "content_includes" /\ call.returned) =>
    /\ call.value <=> \A k \in 1..Len(call.terms) : Found(k)
    /\ call.value => call.searched = Len(call.terms) /\ ~ call.printed
    /\ ~ call.value =>
         /\ call.searched \in 1..Len(call.terms)
         /\ ~ Found(call.searched)
         /\ \A k \in 1..(call.searched - 1) : Found(k)
         /\ call.printed
    /\ call.value = content_includes_checker(call.content, call.terms)
    /\ (call.content = HelloWorld /\ call.terms = <<Hello>>) => call.value
    /\ (call.content = HelloWorld /\ call.terms = <<Xyz>>) => ~ call.value

\* content_includes("hello world", "xyz", "hello") has returned false after
\* one search
C13_Witness ==
  /\ call.checker = "content_includes"
  /\ call.returned
  /\ call.content = HelloWorld
  /\ call.terms = <<Xyz, Hello>>
  /\ call.searched = 1
  /\ ~ call.value

\* C14: content_does_not_include returns false exactly if some term is found
\* in the text, and true if none is (so for no term at all); it is true of
\* ("hello world", "xyz") and false of ("hello world", "hello").
C14_ContentDoesNotInclude ==
  (call.checker = "content_does_not_include" /\ call.returned) =>
    /\ ~ call.value <=> \E k \in 1..Len(call.terms) : Found(k)
    /\ call.value => call.searched = Len(call.terms)
    /\ ~ call.value =>
         /\ call.searched \in 1..Len(call.terms)
         /\ Found(call.searched)
         /\ \A k \in 1..(call.searched - 1) : ~ Found(k)
    /\ call.value = content_does_not_include_checker(call.content, call.terms)
    /\ (call.content = HelloWorld /\ call.terms = <<Xyz>>) => call.value
    /\ (call.content = HelloWorld /\ call.terms = <<Hello>>) => ~ call.value

\* content_does_not_include("hello world", "xyz", "hello") has returned
\* false, the second term being found
C14_Witness ==
  /\ call.checker = "content_does_not_include"
  /\ call.returned
  /\ call.content = HelloWorld
  /\ call.terms = <<Xyz, Hello>>
  /\ call.searched = 2
  /\ ~ call.value

\* C15: add_event is an append to one page: the event becomes the last
\* element of the page's sequence, which is created if the page was not seen
\* before; the earlier events of the page and the sequences of the other
\* pages stay as they are; the log file is not written.
C15_AddEventAppends ==
  [][(log' # log /\ pc # "Log") =>
       /\ logfile' = logfile
       /\ saved' = saved
       /\ \E k \in 1..Len(log') :
            /\ log'[k].page = pages[i].name
            /\ IF HasPage(log, pages[i].name)
                 THEN /\ Len(log') = Len(log)
                      /\ log[k].page = pages[i].name
                      /\ Len(log'[k].events) = Len(log[k].events) + 1
                      /\ SubSeq(log'[k].events, 1, Len(log[k].events))
                           = log[k].events
                 ELSE /\ Len(log') = Len(log) + 1
                      /\ k = Len(log')
                      /\ Len(log'[k].events) = 1
            /\ \A m \in 1..Len(log) : m # k => log'[m] = log[m]]_vars

\* several events were added to a page that had events, in a log of three
\* pages
C15_Witness ==
  /\ Returned
  /\ Len(log) >= 3
  /\ get_events(before, pages[i].name) # <<>>
  /\ Len(Appended) >= 2

\* the log held by the document d (the empty log if there is no document)
Persisted(d) == json_load(d).log

\* C16: the persisted log is append-only across saves and runs: the document
\* written by a completed save holds, for every page of the document before it
\* (the content the run found in the file, or the previous completed save),
\* that page with the earlier sequence of events as a prefix; pages that are
\* not in the config are kept.
C16_AppendOnly ==
  [][saved' # saved =>
       /\ json_load(saved').ok
       /\ \A k \in 1..Len(Persisted(saved)) :
            LET entry == Persisted(saved)[k]
            IN  /\ HasPage(Persisted(saved'), entry.page)
                /\ IsPrefix(entry.events,
                            get_events(Persisted(saved'), entry.page))]_vars

\* two saves of this run are complete: the file holds the page "z" of an
\* earlier run, which is not in the config, and more events for "a" than the
\* earlier run left
C16_Witness ==
  /\ pc = "for"
  /\ Len(calls) >= 2
  /\ logfile.content = saved
  /\ "z" \notin {pages[k].name : k \in 1..Len(pages)}
  /\ FileEvents("z") = <<ResponseFailed(0)>>
  /\ IsPrefix(EarlierEvents, FileEvents("a"))
  /\ Len(FileEvents("a")) > RenderLimit

\* C17: when the run dies on an unknown requirement name while checking a
\* page, the events that this check has added to the page in memory (the
\* response_received event and one event for each requirement before the
\* unknown one) are not in the log file and never get there: the file holds
\* the document of the last completed save, which is the log as it was when
\* the check of the page began.
C17_CrashKeepsLastSave ==
  /\ []((pc = "crashed" /\ passes >= 1) =>
          /\ Len(Appended) = j + 1
          /\ logfile.content = saved
          /\ saved = json_dump(before)
          /\ FileEvents(pages[i].name) = get_events(before, pages[i].name)
          /\ FileEvents(pages[i].name) # get_events(log, pages[i].name))
  /\ [][pc = "crashed" => logfile' = logfile]_vars

\* the run has died in the check of its second page, after the first page was
\* checked and saved and a requirement of the second page was evaluated
C17_Witness ==
  /\ pc = "crashed"
  /\ i = 2
  /\ j >= 1
  /\ Len(Appended) >= 2
  /\ FileEvents(pages[1].name) = get_events(log, pages[1].name)
  /\ FileEvents(pages[1].name) # <<>>

\* C18: the status server only reads: in every interleaving a status request
\* leaves the log file, the run loop's log and everything else the run loop
\* works on as they are, so the run loop saves what it would save without
\* requests; the log file exists from before the server thread starts, so a
\* request never finds it missing and never creates it.
C18_ServerReadOnly ==
  /\ [][requests' # requests =>
          /\ logfile.exists
          /\ UNCHANGED <<logfile, log, buffer, saved, pc, pages, i, j, result,
                         t_start, now, passes, calls, before, atPass>>]_vars
  /\ [](thread => logfile.exists)

\* the log file was missing at the start; a request was answered while a save
\* was writing the file, and the run has ended with its whole log in the file
C18_Witness ==
  /\ pc = "done"
  /\ requests >= 1
  /\ response.status = 500
  /\ Len(calls) = 2
  /\ Len(log) = 2
  /\ logfile.content = json_dump(log)

\* C19: without a config file the run ends in load_config, also with --html:
\* the log file is neither created nor rewritten, no page is checked, no event
\* is added, and the server thread is not started.
C19_MissingConfig ==
  /\ []((~ configfile.exists) =>
          /\ pc \in {"load_config", "crashed"}
          /\ pages = <<>>
          /\ log = <<>>
          /\ calls = <<>>
          /\ passes = 0
          /\ buffer = <<>>
          /\ ~ thread
          /\ requests = 0)
  /\ [][(~ configfile.exists) =>
          /\ logfile' = logfile
          /\ (pc = "load_config" => pc' = "crashed")]_vars

\* run_check --html has ended in load_config, and no log file was created
C19_Witness ==
  /\ ~ configfile.exists
  /\ html
  /\ pc = "crashed"
  /\ ~ logfile.exists

====
